---- MODULE Spec2Model ----
(***************************************************************************)
(* State machine of the risk-assessment editor (App component): the        *)
(* project document, the selection, the error banner, the drags whose      *)
(* window listeners are registered and the asynchronous imports and opens  *)
(* that are in flight.  One action per event handler or callback.          *)
(***************************************************************************)
EXTENDS Integers, Sequences, FiniteSets, TLC

VARIABLES project, selectedLabelId, selectedRowId, error, drags, tasks, download

vars == <<project, selectedLabelId, selectedRowId, error, drags, tasks, download>>

(***************************************************************************)
(* JavaScript values.  Every field that can hold values of several types   *)
(* is a tagged record, so that a number, "", undefined, null, NaN and a    *)
(* missing key stay distinct.  A number is the reduced fraction n/d.       *)
(***************************************************************************)
Val(t, n, d, s) == [t |-> t, n |-> n, d |-> d, s |-> s]

Absent == Val("absent", 0, 1, "")
Undefined == Val("undefined", 0, 1, "")
Null == Val("null", 0, 1, "")
NaN == Val("NaN", 0, 1, "")
PosInfinity == Val("Infinity", 1, 1, "")
NegInfinity == Val("Infinity", -1, 1, "")
Str(s) == Val("string", 0, 1, s)
Num(n) == Val("number", n, 1, "")

Abs(i) == IF i < 0 THEN -i ELSE i

RECURSIVE Gcd(_, _)
Gcd(a, b) == IF b = 0 THEN a ELSE Gcd(b, a % b)

\* n/d for d > 0, reduced
Ratio(n, d) ==
  LET g == Gcd(Abs(n), d)
  IN  Val("number", n \div g, d \div g, "")

\* reading a property: a missing key reads as undefined
Get(v) == IF v = Absent THEN Undefined ELSE v

\* x ?? y
Coalesce(v, w) == IF Get(v) \in {Undefined, Null} THEN w ELSE v

\* truthiness of the values the handlers test
Truthy(v) ==
  CASE Get(v) \in {Undefined, Null, NaN} -> FALSE
    [] v.t = "string" -> v.s # ""
    [] v.t = "number" -> v.n # 0
    [] OTHER -> TRUE

\* x || y
OrElse(v, w) == IF Truthy(v) THEN v ELSE w

\* typeof v === "number" (NaN and the infinities are numbers)
IsNumberType(v) == v.t \in {"number", "NaN", "Infinity"}

\* a / b on integers; the divisor is a box width or height, never negative
Divide(a, b) ==
  IF b = 0
  THEN IF a = 0 THEN NaN ELSE IF a > 0 THEN PosInfinity ELSE NegInfinity
  ELSE Ratio(a, b)

\* Math.max(0, v)
MathMax0(v) ==
  CASE v.t = "NaN" -> NaN
    [] v.t = "Infinity" -> IF v.n > 0 THEN v ELSE Num(0)
    [] OTHER -> IF v.n < 0 THEN Num(0) ELSE v

\* Math.min(1, v)
MathMin1(v) ==
  CASE v.t = "NaN" -> NaN
    [] v.t = "Infinity" -> IF v.n > 0 THEN Num(1) ELSE v
    [] OTHER -> IF v.n > v.d THEN Num(1) ELSE v

clamp01(n) == MathMin1(MathMax0(n))

Digit(i) == CASE i = 0 -> "0" [] i = 1 -> "1" [] i = 2 -> "2" [] i = 3 -> "3"
              [] i = 4 -> "4" [] i = 5 -> "5" [] i = 6 -> "6" [] i = 7 -> "7"
              [] i = 8 -> "8" [] OTHER -> "9"

\* v.toFixed(2) for a clamped coordinate
toFixed2(v) ==
  IF v.t = "NaN" THEN "NaN"
  ELSE LET h == (200 * v.n + v.d) \div (2 * v.d)
       IN  Digit(h \div 100) \o "." \o Digit((h % 100) \div 10) \o Digit(h % 10)

positionText(x, y) == Str("x=" \o toFixed2(x) \o ",y=" \o toFixed2(y))

(***************************************************************************)
(* Scoring and the tabular export                                          *)
(***************************************************************************)
DigitOf(c) ==
  CASE c = "0" -> 0 [] c = "1" -> 1 [] c = "2" -> 2 [] c = "3" -> 3 [] c = "4" -> 4
    [] c = "5" -> 5 [] c = "6" -> 6 [] c = "7" -> 7 [] c = "8" -> 8 [] c = "9" -> 9
    [] OTHER -> -1

RECURSIVE TrimLeft(_)
TrimLeft(s) ==
  IF Len(s) > 0 /\ SubSeq(s, 1, 1) = " " THEN TrimLeft(SubSeq(s, 2, Len(s))) ELSE s

RECURSIVE TrimRight(_)
TrimRight(s) ==
  IF Len(s) > 0 /\ SubSeq(s, Len(s), Len(s)) = " "
  THEN TrimRight(SubSeq(s, 1, Len(s) - 1)) ELSE s

\* the value of a string of decimal digits, -1 when another character is met
RECURSIVE DigitsValue(_)
DigitsValue(s) ==
  IF Len(s) = 0 THEN 0
  ELSE LET front == DigitsValue(SubSeq(s, 1, Len(s) - 1))
           last == DigitOf(SubSeq(s, Len(s), Len(s)))
       IN  IF front < 0 \/ last < 0 THEN -1 ELSE 10 * front + last

\* Number(v), for strings written as an optional sign and decimal digits:
\* white space around is skipped, the empty string is 0, other text is NaN
Number(v) ==
  CASE v.t \in {"number", "NaN", "Infinity"} -> v
    [] v.t = "null" -> Num(0)
    [] v.t = "string" ->
         LET t == TrimRight(TrimLeft(v.s))
             signed == Len(t) > 1 /\ SubSeq(t, 1, 1) \in {"-", "+"}
             digits == IF signed THEN SubSeq(t, 2, Len(t)) ELSE t
             value == DigitsValue(digits)
         IN  IF value < 0 THEN NaN
             ELSE IF signed /\ SubSeq(t, 1, 1) = "-" THEN Num(-value) ELSE Num(value)
    [] OTHER -> NaN

\* s * p
Multiply(s, p) ==
  CASE s.t = "NaN" \/ p.t = "NaN" -> NaN
    [] s.t = "Infinity" \/ p.t = "Infinity" ->
         IF s.n * p.n = 0 THEN NaN
         ELSE IF s.n * p.n > 0 THEN PosInfinity ELSE NegInfinity
    [] OTHER -> Ratio(s.n * p.n, s.d * p.d)

computeR(S, P) ==
  IF S = Str("") \/ P = Str("") \/ Get(S) \in {Undefined, Null}
       \/ Get(P) \in {Undefined, Null}
  THEN Undefined
  ELSE LET s == Number(S)
           p == Number(P)
       IN  IF s.t = "NaN" \/ p.t = "NaN" THEN Undefined ELSE Multiply(s, p)

\* value <= threshold, false when value is NaN
AtMost(value, threshold) ==
  CASE value.t = "NaN" -> FALSE
    [] value.t = "Infinity" -> value.n < 0
    [] OTHER -> value.n <= threshold * value.d

\* a classification that stops before thresholds.medium
riskBadgeClass_belowMedium(value, thresholds) ==
  IF Get(value) \in {Undefined, Null} THEN "bg-gray-200 text-gray-800"
  ELSE IF AtMost(value, thresholds.low) THEN "bg-green-200 text-green-900"
  ELSE IF AtMost(value, thresholds.medium - 1) THEN "bg-amber-200 text-amber-900"
  ELSE "bg-red-200 text-red-900"

\* a classification that tests thresholds.medium first
riskBadgeClass_mediumFirst(value, thresholds) ==
  IF Get(value) \in {Undefined, Null} THEN "bg-gray-200 text-gray-800"
  ELSE IF AtMost(value, thresholds.medium) THEN "bg-amber-200 text-amber-900"
  ELSE IF AtMost(value, thresholds.low) THEN "bg-green-200 text-green-900"
  ELSE "bg-red-200 text-red-900"

riskBadgeClass(value, thresholds) ==
  IF Get(value) \in {Undefined, Null} THEN "bg-gray-200 text-gray-800"
  ELSE IF AtMost(value, thresholds.low) THEN "bg-green-200 text-green-900"
  ELSE IF AtMost(value, thresholds.medium) THEN "bg-amber-200 text-amber-900"
  ELSE "bg-red-200 text-red-900"

\* an enrichment that keeps the risk a row already carries
enrichRowComputed_keepsStored(row) ==
  [row EXCEPT
     !.R = IF Get(row.R) = Undefined THEN computeR(row.S, row.P) ELSE row.R,
     !.Rr = IF Get(row.Rr) = Undefined THEN computeR(row.Sr, row.Pr) ELSE row.Rr]

enrichRowComputed(row) ==
  [row EXCEPT !.R = computeR(row.S, row.P), !.Rr = computeR(row.Sr, row.Pr)]

RECURSIVE NatText(_)
NatText(n) == IF n < 10 THEN Digit(n) ELSE NatText(n \div 10) \o Digit(n % 10)

\* String(cell) of a number; the scores and their products are integers
String(v) ==
  CASE v.t = "NaN" -> "NaN"
    [] v.t = "Infinity" -> IF v.n > 0 THEN "Infinity" ELSE "-Infinity"
    [] v.t = "null" -> "null"
    [] OTHER -> IF v.n < 0 THEN "-" \o NatText(-v.n) ELSE NatText(v.n)

\* cell.replaceAll('"', '""')
RECURSIVE replaceAllQuotes(_)
replaceAllQuotes(s) ==
  IF Len(s) = 0 THEN ""
  ELSE (IF SubSeq(s, 1, 1) = "\"" THEN "\"\"" ELSE SubSeq(s, 1, 1))
         \o replaceAllQuotes(SubSeq(s, 2, Len(s)))

csvCell(cell) ==
  IF cell.t = "string" THEN "\"" \o replaceAllQuotes(cell.s) \o "\"" ELSE String(cell)

RECURSIVE join(_, _)
join(cells, sep) ==
  IF Len(cells) = 0 THEN ""
  ELSE IF Len(cells) = 1 THEN cells[1]
  ELSE cells[1] \o sep \o join(Tail(cells), sep)

headers ==
  <<"ID", "Danger", "Scenario", "S", "P", "R", "Mesures", "Sr", "Pr", "Rr",
    "Commentaires">>

\* the keys of a row in the order of the columns
Columns ==
  <<"id", "danger", "scenario", "S", "P", "R", "measures", "Sr", "Pr", "Rr",
    "comments">>

csvLine(r) ==
  join([i \in 1..Len(Columns) |->
          csvCell(IF Columns[i] = "id" THEN r.id ELSE Coalesce(r[Columns[i]], Str(""))
                 )], ",")

toCsv(rows) ==
  join(<<join(headers, ",")>> \o [i \in 1..Len(rows) |-> csvLine(rows[i])], "\n")

(***************************************************************************)
(* Bounds and input domains                                                *)
(***************************************************************************)
MaxLabels == 2
MaxRows == 2
MaxTasks == 1
MaxImports == 2
MaxDrags == 1
MaxFileLabels == 1

\* the strings uid("L") and uid("R") can return, in the order they are drawn
LabelPool == <<"L_a", "L_b">>
RowPool == <<"R_a", "R_b">>
LabelIds == {LabelPool[i] : i \in DOMAIN LabelPool}
RowIds == {RowPool[i] : i \in DOMAIN RowPool}
Hazards == {"Ecrasement"}
Titles == {"Presse"}
Times == {"t1"}
\* nowIso() at a later click on New
LaterTimes == {"t2"}
DataUrls == {"data:A"}
\* the results of two imports that are in flight together
RaceUrls == {"data:A", "data:B"}

\* clientX, clientY of a drop or of a mouse move
LeftEdge == <<10, 11>>
Outside == <<99, -5>>
Pointers == {LeftEdge, Outside}

\* img.getBoundingClientRect(): laid out, and not laid out yet (no width)
LaidOut == [left |-> 10, top |-> 10, width |-> 4, height |-> 2]
NoWidth == [left |-> 10, top |-> 10, width |-> 0, height |-> 2]
Rects == {LaidOut, NoWidth}

\* the cell edits the table offers: one field, the value typed
DangerPatch == [field |-> "danger", value |-> Str("Bruit")]
\* a score within the scale, one beyond it, and the field emptied
Patches ==
  {[field |-> "S", value |-> Num(3)], [field |-> "S", value |-> Num(99)],
   [field |-> "S", value |-> Str("")], [field |-> "P", value |-> Num(4)],
   DangerPatch}

(***************************************************************************)
(* The document                                                            *)
(***************************************************************************)
DisplayHeight == 650

DefaultSettings ==
  [scoring |->
     [mode |-> "SP", scale |-> 5, riskFormula |-> "R=S*P",
      thresholds |-> [low |-> 5, medium |-> 12, high |-> 25]]]

EmptyImage ==
  [dataUrl |-> Absent, naturalWidth |-> Absent, naturalHeight |-> Absent,
   displayHeight |-> Num(DisplayHeight), displayWidth |-> Absent]

InitialProject(now) ==
  [schemaVersion |-> 1,
   meta |-> [title |-> "Evaluation des Risques machine", createdAt |-> now],
   settings |-> DefaultSettings,
   image |-> EmptyImage,
   labels |-> <<>>,
   rows |-> <<>>]

\* data.labels and data.rows of a file: no such key, an array, something else
NoArray == [kind |-> "absent", items |-> <<>>]
ArrayOf(items) == [kind |-> "array", items |-> items]
NonArray == [kind |-> "string", items |-> <<>>]

\* a file text, held as what JSON.parse makes of it (chars: the characters of
\* a text that is not JSON); NoText: no file
NoText ==
  [top |-> "none", schemaVersion |-> Absent, meta |-> <<>>, settings |-> <<>>,
   image |-> <<>>, labels |-> NoArray, rows |-> NoArray, extra |-> Absent,
   chars |-> ""]

Task(kind, stage, data, text) ==
  [kind |-> kind, stage |-> stage, data |-> data, text |-> text]

Init ==
  /\ project \in {InitialProject(now) : now \in Times}
  /\ selectedLabelId = Null
  /\ selectedRowId = Null
  /\ error = Null
  /\ drags = {}
  /\ tasks = {}
  /\ download = NoText

\* imgRef.current: the <img> is rendered exactly when image.dataUrl is truthy
ImgPresent(p) == Truthy(p.image.dataUrl)

MapSeq(s, F(_)) == [i \in 1..Len(s) |-> F(s[i])]

(***************************************************************************)
(* Topbar: New                                                             *)
(***************************************************************************)
\* a New that goes back to the settings of the initial document
NewProject_defaultSettings(p, now) ==
  [schemaVersion |-> 1,
   meta |-> [title |-> "Projet EN12100", createdAt |-> now],
   settings |-> DefaultSettings,
   image |-> EmptyImage,
   labels |-> <<>>,
   rows |-> <<>>]

NewProject(p, now) ==
  [schemaVersion |-> 1,
   meta |-> [title |-> "Projet EN12100", createdAt |-> now],
   settings |-> p.settings,
   image |-> EmptyImage,
   labels |-> <<>>,
   rows |-> <<>>]

onNew(now) ==
  /\ project' = NewProject(project, now)
  /\ selectedLabelId' = Null
  /\ selectedRowId' = Null
  /\ error' = Null
  /\ UNCHANGED <<drags, tasks, download>>

\* the title input of the topbar
renameProject(p, title) == [p EXCEPT !.meta.title = title]

onRename(title) ==
  /\ project' = renameProject(project, title)
  /\ UNCHANGED <<selectedLabelId, selectedRowId, error, drags, tasks, download>>

(***************************************************************************)
(* Placing a hazard                                                        *)
(***************************************************************************)
\* a row that is created without the id of its label
newRowFor_unlinked(label, rowId) ==
  [id |-> Str(rowId),
   labelId |-> Str(""),
   danger |-> label.type,
   position |-> Absent,
   scenario |-> Str(""),
   S |-> Str(""),
   P |-> Str(""),
   R |-> Undefined,
   measures |-> Str(""),
   Sr |-> Str(""),
   Pr |-> Str(""),
   Rr |-> Undefined,
   comments |-> Str("")]

\* the row createRowForLabel builds for a label
newRowFor(label, rowId) ==
  [id |-> Str(rowId),
   labelId |-> label.id,
   danger |-> label.type,
   position |-> Absent,
   scenario |-> Str(""),
   S |-> Str(""),
   P |-> Str(""),
   R |-> Undefined,
   measures |-> Str(""),
   Sr |-> Str(""),
   Pr |-> Str(""),
   Rr |-> Undefined,
   comments |-> Str("")]

appendRow(p, row) == [p EXCEPT !.rows = Append(p.rows, row)]

appendLabel(p, label) == [p EXCEPT !.labels = Append(p.labels, label)]

\* a drop that stores the quotient as it comes
canvasLabel_noClamp(labelId, danger, pointer, rect) ==
  [id |-> Str(labelId),
   type |-> Str(danger),
   x |-> Divide(pointer[1] - rect.left, rect.width),
   y |-> Divide(pointer[2] - rect.top, rect.height)]

\* the label handleCanvasDrop builds
canvasLabel(labelId, danger, pointer, rect) ==
  [id |-> Str(labelId),
   type |-> Str(danger),
   x |-> clamp01(Divide(pointer[1] - rect.left, rect.width)),
   y |-> clamp01(Divide(pointer[2] - rect.top, rect.height))]

\* the label handleSideDrop builds
sideLabel(labelId, danger) ==
  [id |-> Str(labelId), type |-> Str(danger), x |-> Absent, y |-> Absent]

\* a placement of which only the first update is seen
place_withoutRow(label, rowId) ==
  /\ project' = appendLabel(project, label)
  /\ selectedLabelId' = label.id
  /\ selectedRowId' = Str(rowId)

\* the two setProject updaters of a placement, applied in order, and the selection
place(label, rowId) ==
  /\ project' = appendRow(appendLabel(project, label), newRowFor(label, rowId))
  /\ selectedLabelId' = label.id
  /\ selectedRowId' = Str(rowId)

handleCanvasDrop(danger, pointer, rect, labelId, rowId) ==
  /\ Len(project.labels) < MaxLabels
  /\ Len(project.rows) < MaxRows
  /\ IF danger = "" \/ ~ImgPresent(project)
     THEN UNCHANGED <<project, selectedLabelId, selectedRowId>>
     ELSE place(canvasLabel(labelId, danger, pointer, rect), rowId)
  /\ UNCHANGED <<error, drags, tasks, download>>

handleSideDrop(danger, labelId, rowId) ==
  /\ Len(project.labels) < MaxLabels
  /\ Len(project.rows) < MaxRows
  /\ IF danger = ""
     THEN UNCHANGED <<project, selectedLabelId, selectedRowId>>
     ELSE place(sideLabel(labelId, danger), rowId)
  /\ UNCHANGED <<error, drags, tasks, download>>

(***************************************************************************)
(* Moving a marker                                                         *)
(***************************************************************************)
\* hasPos of the labels overlay: a label without it is not shown on the image
hasPos(lb) == IsNumberType(lb.x) /\ IsNumberType(lb.y)

\* the overlay renders a button for a label when the image is shown and
\* typeof x and typeof y are "number"
Rendered(p, labelId) ==
  /\ ImgPresent(p)
  /\ \E i \in 1..Len(p.labels) :
       /\ p.labels[i].id = Str(labelId)
       /\ IsNumberType(p.labels[i].x)
       /\ IsNumberType(p.labels[i].y)

onStartMoveLabel(labelId, rect) ==
  /\ Rendered(project, labelId)
  /\ Cardinality(drags) < MaxDrags
  /\ selectedLabelId' = Str(labelId)
  /\ drags' = drags \cup {[labelId |-> labelId, rect |-> rect]}
  /\ UNCHANGED <<project, selectedRowId, error, tasks, download>>

\* the setProject updater of onMove
moveLabel(p, labelId, x, y) ==
  [p EXCEPT
     !.labels = MapSeq(p.labels,
                  LAMBDA lb : IF lb.id = Str(labelId)
                              THEN [lb EXCEPT !.x = x, !.y = y] ELSE lb),
     !.rows = MapSeq(p.rows,
                LAMBDA r : IF r.labelId = Str(labelId)
                           THEN [r EXCEPT !.position = positionText(x, y)] ELSE r)]

onMove(drag, pointer) ==
  /\ drag \in drags
  /\ LET x == clamp01(Divide(pointer[1] - drag.rect.left, drag.rect.width))
         y == clamp01(Divide(pointer[2] - drag.rect.top, drag.rect.height))
     IN  project' = moveLabel(project, drag.labelId, x, y)
  /\ UNCHANGED <<selectedLabelId, selectedRowId, error, drags, tasks, download>>

\* a mouseup reaches every registered onUp
onUp ==
  /\ drags # {}
  /\ drags' = {}
  /\ UNCHANGED <<project, selectedLabelId, selectedRowId, error, tasks, download>>

(***************************************************************************)
(* Deleting a marker                                                       *)
(***************************************************************************)
linkedRows(p, labelId) == SelectSeq(p.rows, LAMBDA r : r.labelId = Str(labelId))

\* a delete that never filters the rows
removeLabel_keepsRows(p, labelId, removeRows) ==
  [p EXCEPT !.labels = SelectSeq(p.labels, LAMBDA l : l.id # Str(labelId))]

\* a delete that filters the rows whatever confirm() answered
removeLabel_dropsRows(p, labelId, removeRows) ==
  [p EXCEPT
     !.labels = SelectSeq(p.labels, LAMBDA l : l.id # Str(labelId)),
     !.rows = SelectSeq(p.rows, LAMBDA r : r.labelId # Str(labelId))]

\* the setProject updater of deleteLabel
removeLabel(p, labelId, removeRows) ==
  [p EXCEPT
     !.labels = SelectSeq(p.labels, LAMBDA l : l.id # Str(labelId)),
     !.rows = IF removeRows
              THEN SelectSeq(p.rows, LAMBDA r : r.labelId # Str(labelId))
              ELSE p.rows]

\* answer is what confirm() returns when it is asked
deleteLabel(labelId, answer) ==
  /\ Rendered(project, labelId)
  /\ LET removeRows == IF Len(linkedRows(project, labelId)) > 0 THEN answer ELSE FALSE
     IN  project' = removeLabel(project, labelId, removeRows)
  /\ selectedLabelId' = Null
  /\ UNCHANGED <<selectedRowId, error, drags, tasks, download>>

(***************************************************************************)
(* Table editing                                                           *)
(***************************************************************************)
RowFields == {"danger", "scenario", "S", "P", "measures", "Sr", "Pr", "comments"}

\* a merge that starts again from an empty row
mergePatch_resetsRow(r, patch) ==
  [k \in DOMAIN r |->
     IF k = patch.field THEN patch.value
     ELSE IF k \in {"id", "labelId"} THEN r[k] ELSE Str("")]

\* { ...r, ...patch } for a patch of one field
mergePatch(r, patch) == [r EXCEPT ![patch.field] = patch.value]

patchRows(p, rowId, patch) ==
  [p EXCEPT !.rows = MapSeq(p.rows,
                       LAMBDA r : IF r.id = Str(rowId) THEN mergePatch(r, patch) ELSE r)]

updateRow(rowId, patch) ==
  /\ project' = patchRows(project, rowId, patch)
  /\ UNCHANGED <<selectedLabelId, selectedRowId, error, drags, tasks, download>>

\* a click on a marker of the overlay
onClickLabel(labelId) ==
  /\ Rendered(project, labelId)
  /\ selectedLabelId' = Str(labelId)
  /\ UNCHANGED <<project, selectedRowId, error, drags, tasks, download>>

\* a click on the i-th row of the table, outside its button
onClickRow(i) ==
  /\ i \in 1..Len(project.rows)
  /\ selectedRowId' = project.rows[i].id
  /\ UNCHANGED <<project, selectedLabelId, error, drags, tasks, download>>

\* if (!labelId) return; setSelectedLabelId(labelId)
linkJumpToLabel(labelId) ==
  selectedLabelId' = IF Truthy(labelId) THEN labelId ELSE selectedLabelId

\* a click on "Voir" in the i-th row: the button's handler, then the row's
onVoir(i) ==
  /\ i \in 1..Len(project.rows)
  /\ linkJumpToLabel(project.rows[i].labelId)
  /\ selectedRowId' = project.rows[i].id
  /\ UNCHANGED <<project, error, drags, tasks, download>>

(***************************************************************************)
(* Image import                                                            *)
(***************************************************************************)
MsgLocalRead == "Impossible de lire le fichier image."
MsgRemoteRead == "Impossible de lire l'image telechargee."
MsgRemote ==
  "Echec du chargement distant (CORS). Telechargez l'image localement puis deposez-la."
MsgOpen == "Echec d'ouverture du projet: "

\* a failure branch that wipes the image as well
failWith_clearsImage(msg) ==
  /\ error' = Str(msg)
  /\ project' = [project EXCEPT !.image = EmptyImage]

\* a failure branch that reports nothing
failWith_silent(msg) == UNCHANGED <<error, project>>

\* a failure branch (fr.onerror, a catch block): setError(msg) and nothing else
failWith(msg) ==
  /\ error' = Str(msg)
  /\ UNCHANGED project

\* the reads in flight that belong to an image import
imports == {task \in tasks : task.kind \in {"local", "remote"}}

\* an onload that keeps the image it finds
setDataUrl_firstWins(p, data) ==
  IF Truthy(p.image.dataUrl) THEN p ELSE [p EXCEPT !.image.dataUrl = Str(data)]

\* an onload that builds the image anew around the result
setDataUrl_resetsImage(p, data) ==
  [p EXCEPT !.image = [EmptyImage EXCEPT !.dataUrl = Str(data)]]

\* the setProject updater of fr.onload
setDataUrl(p, data) == [p EXCEPT !.image.dataUrl = Str(data)]

\* fr.readAsDataURL(file) is started
importLocalImage(data) == tasks' = tasks \cup {Task("local", "read", data, NoText)}

\* fetch(url) is started
importRemoteImage(data) == tasks' = tasks \cup {Task("remote", "fetch", data, NoText)}

\* a drop on the empty image zone; kind says what the drag carries.  The event
\* then bubbles to handleCanvasDrop, which returns because there is no <img>.
onDropImage(kind, data) ==
  /\ ~ImgPresent(project)
  /\ Cardinality(imports) < MaxImports
  /\ error' = Null
  /\ CASE kind = "file" -> importLocalImage(data)
       [] kind = "url" -> importRemoteImage(data)
       [] OTHER -> UNCHANGED tasks
  /\ UNCHANGED <<project, selectedLabelId, selectedRowId, drags, download>>

\* prompt() returned a non-empty url
onPasteImageUrl(data) ==
  /\ Cardinality(imports) < MaxImports
  /\ importRemoteImage(data)
  /\ UNCHANGED <<project, selectedLabelId, selectedRowId, error, drags, download>>

\* fr.onload (ok) or fr.onerror of a local or a downloaded image
readDone(task, ok) ==
  /\ task \in tasks
  /\ task.kind \in {"local", "remote"}
  /\ task.stage = "read"
  /\ tasks' = tasks \ {task}
  /\ IF ok
     THEN /\ project' = setDataUrl(project, task.data)
          /\ UNCHANGED error
     ELSE failWith(IF task.kind = "local" THEN MsgLocalRead ELSE MsgRemoteRead)
  /\ UNCHANGED <<selectedLabelId, selectedRowId, drags, download>>

\* the fetch settles: outcome is "ok", "status" (res.ok false) or "reject"
fetchDone(task, outcome) ==
  /\ task \in tasks
  /\ task.kind = "remote"
  /\ task.stage = "fetch"
  /\ IF outcome = "ok"
     THEN /\ tasks' = (tasks \ {task}) \cup {[task EXCEPT !.stage = "blob"]}
          /\ UNCHANGED <<project, error>>
     ELSE /\ tasks' = tasks \ {task}
          /\ failWith(MsgRemote)
  /\ UNCHANGED <<selectedLabelId, selectedRowId, drags, download>>

\* res.blob() settles; on success fr.readAsDataURL(blob) is started
blobDone(task, ok) ==
  /\ task \in tasks
  /\ task.kind = "remote"
  /\ task.stage = "blob"
  /\ IF ok
     THEN /\ tasks' = (tasks \ {task}) \cup {[task EXCEPT !.stage = "read"]}
          /\ UNCHANGED <<project, error>>
     ELSE /\ tasks' = tasks \ {task}
          /\ failWith(MsgRemote)
  /\ UNCHANGED <<selectedLabelId, selectedRowId, drags, download>>

\* what the <img> reports when it loads or is resized
Layouts ==
  {[clientWidth |-> 0, naturalWidth |-> 0, naturalHeight |-> 0],
   [clientWidth |-> 4, naturalWidth |-> 8, naturalHeight |-> 4]}

\* the setProject updater of the displayWidth effect
syncImage(p, img) ==
  [p EXCEPT !.image =
     [p.image EXCEPT
        !.displayWidth = OrElse(Num(img.clientWidth), Num(img.naturalWidth)),
        !.naturalWidth = OrElse(Num(img.naturalWidth), Get(p.image.naturalWidth)),
        !.naturalHeight = OrElse(Num(img.naturalHeight), Get(p.image.naturalHeight))]]

update(img) ==
  /\ ImgPresent(project)
  /\ project' = syncImage(project, img)
  /\ UNCHANGED <<selectedLabelId, selectedRowId, error, drags, tasks, download>>

(***************************************************************************)
(* Save and Open                                                           *)
(***************************************************************************)
\* JSON.stringify of a property value: undefined is left out, NaN and the
\* infinities are written as null
jsonValue(v) ==
  CASE v.t \in {"undefined", "absent"} -> Absent
    [] v.t \in {"NaN", "Infinity"} -> Null
    [] OTHER -> v

jsonRecord(r) == [k \in DOMAIN r |-> jsonValue(r[k])]

\* JSON.stringify(project, null, 2), as the tree JSON.parse reads back
JSONstringify(p) ==
  [top |-> "object",
   schemaVersion |-> Num(p.schemaVersion),
   meta |-> <<p.meta>>,
   settings |-> <<p.settings>>,
   image |-> <<jsonRecord(p.image)>>,
   labels |-> ArrayOf(MapSeq(p.labels, jsonRecord)),
   rows |-> ArrayOf(MapSeq(p.rows, jsonRecord)),
   extra |-> Absent,
   chars |-> ""]

onSave ==
  /\ download' = JSONstringify(project)
  /\ UNCHANGED <<project, selectedLabelId, selectedRowId, error, drags, tasks>>

\* downloadText(name, csv): the text of the download, which is not JSON
csvText(csv) == [NoText EXCEPT !.top = "unparsable", !.chars = csv]

onExportCsv ==
  /\ download' = csvText(toCsv(MapSeq(project.rows, enrichRowComputed)))
  /\ UNCHANGED <<project, selectedLabelId, selectedRowId, error, drags, tasks>>

\* the file picker's onchange: file.text() is started
onOpen(text) ==
  /\ Cardinality(tasks \ imports) < MaxTasks
  /\ text # NoText
  /\ tasks' = tasks \cup {Task("open", "text", "", text)}
  /\ UNCHANGED <<project, selectedLabelId, selectedRowId, error, drags, download>>

\* { displayHeight: 650, ...(data.image || {}) }
spreadImage(image) ==
  IF image = <<>>
  THEN EmptyImage
  ELSE [k \in DOMAIN EmptyImage |->
          IF image[1][k] # Absent THEN image[1][k] ELSE EmptyImage[k]]

\* the "basic permissive validation": !data || typeof data !== "object"
passesValidation(text) == text.top \in {"object", "array"}

\* an Open that falls back to the previous labels and rows
openProject_keepsArrays(prev, data) ==
  [schemaVersion |-> 1,
   meta |-> IF data.meta = <<>> THEN prev.meta ELSE data.meta[1],
   settings |-> IF data.settings = <<>> THEN prev.settings ELSE data.settings[1],
   image |-> spreadImage(data.image),
   labels |-> IF data.labels.kind = "array" THEN data.labels.items ELSE prev.labels,
   rows |-> IF data.rows.kind = "array" THEN data.rows.items ELSE prev.rows]

\* the setProject updater of onOpen
openProject(prev, data) ==
  [schemaVersion |-> 1,
   meta |-> IF data.meta = <<>> THEN prev.meta ELSE data.meta[1],
   settings |-> IF data.settings = <<>> THEN prev.settings ELSE data.settings[1],
   image |-> spreadImage(data.image),
   labels |-> IF data.labels.kind = "array" THEN data.labels.items ELSE <<>>,
   rows |-> IF data.rows.kind = "array" THEN data.rows.items ELSE <<>>]

\* the rest of onchange, after await file.text(); readOk: the read did not reject
openDone(task, readOk) ==
  /\ task \in tasks
  /\ task.kind = "open"
  /\ tasks' = tasks \ {task}
  /\ CASE ~readOk -> failWith(MsgOpen \o "NotReadableError")
       [] readOk /\ task.text.top = "unparsable" -> failWith(MsgOpen \o "SyntaxError")
       [] readOk /\ task.text.top # "unparsable" /\ ~passesValidation(task.text) ->
            failWith(MsgOpen \o "Fichier invalide")
       [] OTHER ->
            /\ project' = openProject(project, task.text)
            /\ error' = Null
  /\ UNCHANGED <<selectedLabelId, selectedRowId, drags, download>>

\* files that do not hold an object
TopLevel(kind) == [NoText EXCEPT !.top = kind]

\* {"image": {"displayHeight": 400}, "note": "x"}
ShortImageFile ==
  [NoText EXCEPT !.top = "object",
                 !.image = <<[EmptyImage EXCEPT !.displayHeight = Num(400)]>>,
                 !.extra = Str("x")]

\* settings of a file whose thresholds are not the default ones
OtherThresholds == [low |-> 12, medium |-> 5, high |-> 25]

SettingsOf(thresholds) ==
  [scoring |-> [DefaultSettings.scoring EXCEPT !.thresholds = thresholds]]

\* a saved project of another session, with a later schemaVersion and a key
\* this version does not know
FullFile ==
  [top |-> "object",
   schemaVersion |-> Num(7),
   meta |-> <<[title |-> "Four", createdAt |-> "t0"]>>,
   settings |-> <<SettingsOf(OtherThresholds)>>,
   image |-> <<>>,
   labels |-> ArrayOf(<<jsonRecord(sideLabel("L_f", "Bruit"))>>),
   rows |-> ArrayOf(<<jsonRecord(newRowFor(sideLabel("L_f", "Bruit"), "R_f"))>>),
   extra |-> Str("x"),
   chars |-> ""]

\* {"labels": "none", "rows": "none"}
NonArrayFile ==
  [NoText EXCEPT !.top = "object", !.labels = NonArray, !.rows = NonArray]

\* the values a file can give for a score: no key, null, "", blank, text, numbers
ScoreInputs == {Absent, Null, Str(""), Str(" "), Str("abc"), Num(0), Num(3), Num(4)}
ScoresAfter == {Num(0), Num(3), Num(4)}

ThresholdChoices ==
  {DefaultSettings.scoring.thresholds, OtherThresholds,
   [low |-> 5, medium |-> 12, high |-> 0]}

\* a file of one row with the given scores, under the given thresholds
ScoreFile(S, P, Pr, thresholds) ==
  [NoText EXCEPT
     !.top = "object",
     !.settings = <<SettingsOf(thresholds)>>,
     !.rows = ArrayOf(<<[jsonRecord(newRowFor(sideLabel("L_f", "Bruit"), "R_f"))
                           EXCEPT !.S = S, !.P = P, !.Sr = Num(3), !.Pr = Pr]>>)]

ScoreFiles ==
  {ScoreFile(S, P, Pr, thresholds) :
     S \in ScoreInputs, P \in ScoreInputs, Pr \in ScoresAfter,
     thresholds \in ThresholdChoices}

\* {row.R ?? "-"}: the text of a risk cell of the table (the dash is an em dash)
riskCell(v) == IF Get(v) \in {Undefined, Null} THEN "-" ELSE String(v)

\* the two risk cells the table renders for a row
tableRisks(r) ==
  LET row == enrichRowComputed(r)
  IN  [R |-> riskCell(row.R), Rr |-> riskCell(row.Rr)]

\* what a file can hold under the keys R and Rr of a row
StoredRisks == {Absent, Null, Num(99), Str("12")}

\* a file of one row that carries a risk of its own
StaleFile(S, R, Rr) ==
  [NoText EXCEPT
     !.top = "object",
     !.rows = ArrayOf(<<[jsonRecord(newRowFor(sideLabel("L_f", "Bruit"), "R_f"))
                           EXCEPT !.S = S, !.P = Num(4), !.R = R,
                                  !.Sr = Num(3), !.Pr = Num(0), !.Rr = Rr]>>)]

StaleFiles ==
  {StaleFile(S, R, Rr) : S \in {Str(""), Num(3)}, R \in StoredRisks, Rr \in StoredRisks}

\* the score cells that are edited after a file was opened
ScorePatches == Patches \cup {[field |-> "Pr", value |-> Num(2)]}

\* a text with a double quote in it
QuotePatch == [field |-> "scenario", value |-> Str("dit \"stop\"")]

OpenFiles == {FullFile, NonArrayFile, ShortImageFile, TopLevel("unparsable")}

ExternalFiles ==
  {TopLevel(k) : k \in {"unparsable", "number", "string", "boolean", "null", "array"}}
    \cup {ShortImageFile}

(***************************************************************************)
(* uid(): Math.random().toString(36).slice(2, 9) behind a prefix.  Ids are *)
(* opaque, so a draw is, up to renaming, either an id the state does not   *)
(* mention (the first such of the pool) or, when the draw collides, one it *)
(* mentions.                                                               *)
(***************************************************************************)
UsedLabelIds ==
  {project.labels[i].id.s : i \in 1..Len(project.labels)}
    \cup {project.rows[i].labelId.s : i \in 1..Len(project.rows)}
    \cup {d.labelId : d \in drags}
    \cup {selectedLabelId.s}

UsedRowIds ==
  {project.rows[i].id.s : i \in 1..Len(project.rows)} \cup {selectedRowId.s}

FirstUnused(pool, used) ==
  LET free == {i \in DOMAIN pool : pool[i] \notin used}
  IN  IF free = {} THEN {} ELSE {pool[CHOOSE i \in free : \A j \in free : i <= j]}

Range(pool) == {pool[i] : i \in DOMAIN pool}

\* every outcome of a draw, collisions included
uid(pool, used) == FirstUnused(pool, used) \cup (used \cap Range(pool))

\* the outcomes that do not collide
uidFresh(pool, used) == FirstUnused(pool, used)

(***************************************************************************)
(* Specifications.  Next is the whole component.  The others restrict the  *)
(* events and their inputs to one part of it.                              *)
(***************************************************************************)
Next ==
  \/ \E now \in Times : onNew(now)
  \/ \E title \in Titles : onRename(title)
  \/ \E danger \in Hazards \cup {""}, pointer \in Pointers, rect \in Rects,
        labelId \in LabelIds, rowId \in RowIds :
       handleCanvasDrop(danger, pointer, rect, labelId, rowId)
  \/ \E danger \in Hazards \cup {""}, labelId \in LabelIds, rowId \in RowIds :
       handleSideDrop(danger, labelId, rowId)
  \/ \E labelId \in LabelIds, rect \in Rects : onStartMoveLabel(labelId, rect)
  \/ \E drag \in drags, pointer \in Pointers : onMove(drag, pointer)
  \/ onUp
  \/ \E labelId \in LabelIds, answer \in BOOLEAN : deleteLabel(labelId, answer)
  \/ \E rowId \in RowIds, patch \in Patches : updateRow(rowId, patch)
  \/ \E kind \in {"file", "url", "none"}, data \in DataUrls : onDropImage(kind, data)
  \/ \E data \in DataUrls : onPasteImageUrl(data)
  \/ \E task \in tasks, ok \in BOOLEAN : readDone(task, ok)
  \/ \E task \in tasks, outcome \in {"ok", "status", "reject"} : fetchDone(task, outcome)
  \/ \E task \in tasks, ok \in BOOLEAN : blobDone(task, ok)
  \/ \E img \in Layouts : update(img)
  \/ onSave
  \/ \E text \in ExternalFiles \cup {download} : onOpen(text)
  \/ \E task \in tasks, readOk \in BOOLEAN : openDone(task, readOk)
  \/ onExportCsv
  \/ \E labelId \in LabelIds : onClickLabel(labelId)
  \/ \E i \in 1..MaxRows : onClickRow(i)
  \/ \E i \in 1..MaxRows : onVoir(i)

Spec == Init /\ [][Next]_vars

\* The document store: placing, moving, deleting, New.  The image comes
\* from a local file that is read without error; a drag starts on a laid-out
\* image.
NextStore ==
  \/ \E now \in Times : onNew(now)
  \/ \E danger \in Hazards \cup {""}, pointer \in Pointers, rect \in Rects,
        labelId \in uid(LabelPool, UsedLabelIds), rowId \in uid(RowPool, UsedRowIds) :
       handleCanvasDrop(danger, pointer, rect, labelId, rowId)
  \/ \E danger \in Hazards \cup {""},
        labelId \in uid(LabelPool, UsedLabelIds), rowId \in uid(RowPool, UsedRowIds) :
       handleSideDrop(danger, labelId, rowId)
  \/ \E labelId \in LabelIds : onStartMoveLabel(labelId, LaidOut)
  \/ \E drag \in drags, pointer \in Pointers : onMove(drag, pointer)
  \/ onUp
  \/ \E labelId \in LabelIds, answer \in BOOLEAN : deleteLabel(labelId, answer)
  \/ \E data \in DataUrls : onDropImage("file", data)
  \/ \E task \in tasks : readDone(task, TRUE)

SpecStore == Init /\ [][NextStore]_vars

\* Placing and deleting: NextStore without the drags.
NextPlace ==
  \/ \E now \in Times : onNew(now)
  \/ \E danger \in Hazards \cup {""}, pointer \in Pointers, rect \in Rects,
        labelId \in uid(LabelPool, UsedLabelIds), rowId \in uid(RowPool, UsedRowIds) :
       handleCanvasDrop(danger, pointer, rect, labelId, rowId)
  \/ \E danger \in Hazards \cup {""},
        labelId \in uid(LabelPool, UsedLabelIds), rowId \in uid(RowPool, UsedRowIds) :
       handleSideDrop(danger, labelId, rowId)
  \/ \E labelId \in LabelIds, answer \in BOOLEAN : deleteLabel(labelId, answer)
  \/ \E data \in DataUrls : onDropImage("file", data)
  \/ \E task \in tasks : readDone(task, TRUE)

SpecPlace == Init /\ [][NextPlace]_vars

\* The operations that keep every row linked: as NextStore, with a cell
\* edit and the title, every confirm() answered OK, every image box laid out,
\* a drop on the left edge of the image and a drag that leaves it.
NextCascade ==
  \/ \E now \in Times : onNew(now)
  \/ \E title \in Titles : onRename(title)
  \/ \E danger \in Hazards,
        labelId \in uid(LabelPool, UsedLabelIds), rowId \in uid(RowPool, UsedRowIds) :
       handleCanvasDrop(danger, LeftEdge, LaidOut, labelId, rowId)
  \/ \E danger \in Hazards,
        labelId \in uid(LabelPool, UsedLabelIds), rowId \in uid(RowPool, UsedRowIds) :
       handleSideDrop(danger, labelId, rowId)
  \/ \E labelId \in LabelIds : onStartMoveLabel(labelId, LaidOut)
  \/ \E drag \in drags : onMove(drag, Outside)
  \/ onUp
  \/ \E labelId \in LabelIds : deleteLabel(labelId, TRUE)
  \/ \E rowId \in RowIds : updateRow(rowId, DangerPatch)
  \/ \E data \in DataUrls : onDropImage("file", data)
  \/ \E task \in tasks : readDone(task, TRUE)

SpecCascade == Init /\ [][NextCascade]_vars

\* Save and Open: documents of at most MaxFileLabels placements are saved and
\* opened, next to files that come from elsewhere.
NextFiles ==
  \/ \E danger \in Hazards, pointer \in Pointers, rect \in Rects,
        labelId \in uidFresh(LabelPool, UsedLabelIds),
        rowId \in uidFresh(RowPool, UsedRowIds) :
       /\ Len(project.labels) < MaxFileLabels
       /\ handleCanvasDrop(danger, pointer, rect, labelId, rowId)
  \/ \E danger \in Hazards,
        labelId \in uidFresh(LabelPool, UsedLabelIds),
        rowId \in uidFresh(RowPool, UsedRowIds) :
       /\ Len(project.labels) < MaxFileLabels
       /\ handleSideDrop(danger, labelId, rowId)
  \/ \E data \in DataUrls : onDropImage("file", data)
  \/ \E task \in tasks : readDone(task, TRUE)
  \/ onSave
  \/ \E text \in ExternalFiles \cup {download} : onOpen(text)
  \/ \E task \in tasks, readOk \in BOOLEAN : openDone(task, readOk)

SpecFiles == Init /\ [][NextFiles]_vars

\* Imports and their failures: every outcome of reading a file, of fetching
\* and of opening, on documents of at most MaxFileLabels placements, with at
\* most MaxTasks reads in flight.
NextImport ==
  \/ \E now \in Times : onNew(now)
  \/ \E danger \in Hazards,
        labelId \in uidFresh(LabelPool, UsedLabelIds),
        rowId \in uidFresh(RowPool, UsedRowIds) :
       /\ Len(project.labels) < MaxFileLabels
       /\ handleSideDrop(danger, labelId, rowId)
  \/ \E kind \in {"file", "url", "none"}, data \in DataUrls :
       /\ Cardinality(tasks) < MaxTasks
       /\ onDropImage(kind, data)
  \/ \E data \in DataUrls :
       /\ Cardinality(tasks) < MaxTasks
       /\ onPasteImageUrl(data)
  \/ \E task \in tasks, ok \in BOOLEAN : readDone(task, ok)
  \/ \E task \in tasks, outcome \in {"ok", "status", "reject"} : fetchDone(task, outcome)
  \/ \E task \in tasks, ok \in BOOLEAN : blobDone(task, ok)
  \/ \E img \in Layouts : update(img)
  \/ \E text \in ExternalFiles :
       /\ Cardinality(tasks) < MaxTasks
       /\ onOpen(text)
  \/ \E task \in tasks, readOk \in BOOLEAN : openDone(task, readOk)

SpecImport == Init /\ [][NextImport]_vars

\* The table: rows are placed off the image and edited cell by cell.
NextTable ==
  \/ \E now \in Times : onNew(now)
  \/ \E danger \in Hazards,
        labelId \in uid(LabelPool, UsedLabelIds), rowId \in uid(RowPool, UsedRowIds) :
       handleSideDrop(danger, labelId, rowId)
  \/ \E rowId \in RowIds, patch \in Patches : updateRow(rowId, patch)

SpecTable == Init /\ [][NextTable]_vars

\* New and Open: documents of at most MaxFileLabels placements, renamed or
\* not, are replaced by New and by the files of OpenFiles.
NextOpen ==
  \/ \E now \in LaterTimes : onNew(now)
  \/ \E title \in Titles : onRename(title)
  \/ \E danger \in Hazards,
        labelId \in uidFresh(LabelPool, UsedLabelIds),
        rowId \in uidFresh(RowPool, UsedRowIds) :
       /\ Len(project.labels) < MaxFileLabels
       /\ handleSideDrop(danger, labelId, rowId)
  \/ \E data \in DataUrls : onDropImage("file", data)
  \/ \E task \in tasks : readDone(task, TRUE)
  \/ \E text \in OpenFiles : onOpen(text)
  \/ \E task \in tasks, readOk \in BOOLEAN : openDone(task, readOk)

SpecOpen == Init /\ [][NextOpen]_vars

\* Scoring: a file of ScoreFiles is opened over the initial document, the
\* table shows its row and the row is exported.
NextScores ==
  \/ \E text \in ScoreFiles :
       /\ project.rows = <<>>
       /\ tasks = {}
       /\ onOpen(text)
  \/ \E task \in tasks : openDone(task, TRUE)
  \/ onExportCsv

SpecScores == Init /\ [][NextScores]_vars

\* Export: rows are placed off the image and edited, then the table is
\* exported.
NextExport ==
  \/ \E danger \in Hazards,
        labelId \in uidFresh(LabelPool, UsedLabelIds),
        rowId \in uidFresh(RowPool, UsedRowIds) :
       /\ download = NoText
       /\ handleSideDrop(danger, labelId, rowId)
  \/ \E rowId \in RowIds, patch \in Patches \cup {QuotePatch} :
       /\ download = NoText
       /\ updateRow(rowId, patch)
  \/ onExportCsv

SpecExport == Init /\ [][NextExport]_vars

\* Two imports at once: a drop on the empty image zone or a pasted url starts
\* an import while another is in flight; every stage succeeds.
NextRace ==
  \/ \E kind \in {"file", "url"}, data \in RaceUrls : onDropImage(kind, data)
  \/ \E data \in RaceUrls : onPasteImageUrl(data)
  \/ \E task \in tasks : fetchDone(task, "ok")
  \/ \E task \in tasks : blobDone(task, TRUE)
  \/ \E task \in tasks : readDone(task, TRUE)
  \/ \E img \in Layouts : update(img)

SpecRace == Init /\ [][NextRace]_vars

\* Derived risk: files whose row carries R and Rr are opened, score cells of
\* the rows of the table are edited, the table is exported.
NextDerived ==
  \/ \E text \in StaleFiles :
       /\ tasks = {}
       /\ download = NoText
       /\ onOpen(text)
  \/ \E task \in tasks : openDone(task, TRUE)
  \/ \E i \in 1..Len(project.rows), patch \in ScorePatches :
       /\ download = NoText
       /\ updateRow(project.rows[i].id.s, patch)
  \/ onExportCsv

SpecDerived == Init /\ [][NextDerived]_vars

\* Pairs: the store with ids that do not collide.  Markers are placed on a
\* laid-out image and off it, dragged, deleted with and without the cascade;
\* cells of the rows of the table are edited.
NextPairs ==
  \/ \E now \in Times : onNew(now)
  \/ \E danger \in Hazards, pointer \in Pointers,
        labelId \in uidFresh(LabelPool, UsedLabelIds),
        rowId \in uidFresh(RowPool, UsedRowIds) :
       handleCanvasDrop(danger, pointer, LaidOut, labelId, rowId)
  \/ \E danger \in Hazards,
        labelId \in uidFresh(LabelPool, UsedLabelIds),
        rowId \in uidFresh(RowPool, UsedRowIds) :
       handleSideDrop(danger, labelId, rowId)
  \/ \E labelId \in LabelIds : onStartMoveLabel(labelId, LaidOut)
  \/ \E drag \in drags, pointer \in Pointers : onMove(drag, pointer)
  \/ onUp
  \/ \E labelId \in LabelIds, answer \in BOOLEAN : deleteLabel(labelId, answer)
  \/ \E i \in 1..Len(project.rows) : updateRow(project.rows[i].id.s, DangerPatch)
  \/ \E data \in DataUrls : onDropImage("file", data)
  \/ \E task \in tasks : readDone(task, TRUE)

SpecPairs == Init /\ [][NextPairs]_vars

\* One import at a time, with the document edited or replaced while it is in
\* flight: placements, a cell edit, deletes, New and Open of a file go on
\* between the start of an import and the end of its read.
NextApply ==
  \/ \E now \in LaterTimes : onNew(now)
  \/ \E danger \in Hazards,
        labelId \in uidFresh(LabelPool, UsedLabelIds),
        rowId \in uidFresh(RowPool, UsedRowIds) :
       /\ Len(project.labels) < MaxFileLabels
       /\ handleCanvasDrop(danger, LeftEdge, LaidOut, labelId, rowId)
  \/ \E danger \in Hazards,
        labelId \in uidFresh(LabelPool, UsedLabelIds),
        rowId \in uidFresh(RowPool, UsedRowIds) :
       /\ Len(project.labels) < MaxFileLabels
       /\ handleSideDrop(danger, labelId, rowId)
  \/ \E labelId \in LabelIds, answer \in BOOLEAN : deleteLabel(labelId, answer)
  \/ \E i \in 1..Len(project.rows) : updateRow(project.rows[i].id.s, DangerPatch)
  \/ \E kind \in {"file", "url"}, data \in DataUrls :
       /\ imports = {}
       /\ onDropImage(kind, data)
  \/ \E data \in RaceUrls :
       /\ imports = {}
       /\ onPasteImageUrl(data)
  \/ \E task \in tasks : fetchDone(task, "ok")
  \/ \E task \in tasks : blobDone(task, TRUE)
  \/ \E task \in tasks : readDone(task, TRUE)
  \/ \E text \in {FullFile, ShortImageFile} : onOpen(text)
  \/ \E task \in tasks : openDone(task, TRUE)

SpecApply == Init /\ [][NextApply]_vars

\* the reads, fetches and body reads an import can have in flight
ImportTasks ==
  {Task("local", "read", data, NoText) : data \in DataUrls}
    \cup {Task("remote", stage, data, NoText) :
            stage \in {"fetch", "blob", "read"}, data \in DataUrls}

\* Every fetch, every body read and every FileReader read that was started
\* settles: the browser ends each of them with a success or a failure event.
Settles ==
  \A task \in ImportTasks :
    /\ WF_vars(\E outcome \in {"ok", "status", "reject"} : fetchDone(task, outcome))
    /\ WF_vars(\E ok \in BOOLEAN : blobDone(task, ok))
    /\ WF_vars(\E ok \in BOOLEAN : readDone(task, ok))

\* Imports alone, with reads that settle: every way of starting an import and
\* every outcome of its stages, on documents of at most MaxFileLabels
\* placements, with at most MaxTasks reads in flight.
NextResolve ==
  \/ \E now \in LaterTimes : onNew(now)
  \/ \E danger \in Hazards,
        labelId \in uidFresh(LabelPool, UsedLabelIds),
        rowId \in uidFresh(RowPool, UsedRowIds) :
       /\ Len(project.labels) < MaxFileLabels
       /\ handleSideDrop(danger, labelId, rowId)
  \/ \E kind \in {"file", "url", "none"}, data \in DataUrls :
       /\ Cardinality(tasks) < MaxTasks
       /\ onDropImage(kind, data)
  \/ \E data \in DataUrls :
       /\ Cardinality(tasks) < MaxTasks
       /\ onPasteImageUrl(data)
  \/ \E task \in tasks, ok \in BOOLEAN : readDone(task, ok)
  \/ \E task \in tasks, outcome \in {"ok", "status", "reject"} : fetchDone(task, outcome)
  \/ \E task \in tasks, ok \in BOOLEAN : blobDone(task, ok)
  \/ \E img \in Layouts : update(img)

SpecResolve == Init /\ [][NextResolve]_vars /\ Settles

\* Selection: markers are placed on a laid-out image and off it and deleted,
\* the document is replaced by New and by a file, and markers and rows are
\* clicked.
NextSelect ==
  \/ \E now \in LaterTimes : onNew(now)
  \/ \E danger \in Hazards,
        labelId \in uidFresh(LabelPool, UsedLabelIds),
        rowId \in uidFresh(RowPool, UsedRowIds) :
       handleCanvasDrop(danger, LeftEdge, LaidOut, labelId, rowId)
  \/ \E danger \in Hazards,
        labelId \in uidFresh(LabelPool, UsedLabelIds),
        rowId \in uidFresh(RowPool, UsedRowIds) :
       handleSideDrop(danger, labelId, rowId)
  \/ \E labelId \in LabelIds, answer \in BOOLEAN : deleteLabel(labelId, answer)
  \/ \E labelId \in LabelIds : onClickLabel(labelId)
  \/ \E i \in 1..MaxRows : onClickRow(i)
  \/ \E i \in 1..MaxRows : onVoir(i)
  \/ \E data \in DataUrls : onDropImage("file", data)
  \/ \E task \in tasks : readDone(task, TRUE)
  \/ \E text \in {FullFile} :
       /\ tasks = {}
       /\ onOpen(text)
  \/ \E task \in tasks : openDone(task, TRUE)

SpecSelect == Init /\ [][NextSelect]_vars

(***************************************************************************)
(* Properties                                                              *)
(***************************************************************************)
labelIdsOf(p) == {p.labels[i].id : i \in 1..Len(p.labels)}
rowIdsOf(p) == {p.rows[i].id : i \in 1..Len(p.rows)}

\* the elements of s at the indices of keep, in the order of s
Sub(s, keep) ==
  LET F[i \in 0..Len(s)] ==
        IF i = 0 THEN <<>>
        ELSE IF i \in keep THEN Append(F[i - 1], s[i]) ELSE F[i - 1]
  IN  F[Len(s)]

\* C1: under New, placements on and off the image, moves, cell edits, rename
\* and cascading deletes, every row with a non-empty labelId refers to a
\* marker that is in labels.
C1_RowsLinked ==
  \A i \in 1..Len(project.rows) :
    Truthy(project.rows[i].labelId) => project.rows[i].labelId \in labelIdsOf(project)

\* a cascading delete removed the selected row, and a moved marker keeps its row
C1_Witness ==
  /\ Len(project.rows) = 1
  /\ Len(project.labels) = 1
  /\ selectedRowId.t = "string"
  /\ selectedRowId \notin rowIdsOf(project)
  /\ project.rows[1].position # Absent
  /\ project.rows[1].danger = DangerPatch.value

\* C2: deleteLabel removes the markers with the id and, when the cascade is
\* chosen, the rows linked to it; declined, it leaves rows as it was; every
\* other marker and row is unchanged and keeps its place.
C2_DeleteFrame ==
  [][\A labelId \in LabelIds, answer \in BOOLEAN :
       deleteLabel(labelId, answer) =>
         /\ project'.labels =
              Sub(project.labels,
                  {i \in 1..Len(project.labels) : project.labels[i].id # Str(labelId)})
         /\ answer =>
              project'.rows =
                Sub(project.rows,
                    {i \in 1..Len(project.rows) : project.rows[i].labelId # Str(labelId)})
         /\ ~answer => project'.rows = project.rows
         /\ \A f \in DOMAIN project \ {"labels", "rows"} : project'[f] = project[f]]_vars

\* a declined cascade left a row without its marker, next to a linked row
C2_Witness ==
  /\ Len(project.rows) = 2
  /\ Len(project.labels) = 1
  /\ project.rows[1].labelId \notin labelIdsOf(project)
  /\ project.rows[2].labelId \in labelIdsOf(project)

\* two sequences of records that read alike, key by key
SameRecords(s, t) ==
  /\ Len(s) = Len(t)
  /\ \A i \in 1..Len(s) : \A k \in DOMAIN s[i] : Get(s[i][k]) = Get(t[i][k])

SameFields(p, q) ==
  /\ SameRecords(p.labels, q.labels)
  /\ SameRecords(p.rows, q.rows)
  /\ p.meta = q.meta
  /\ p.settings = q.settings

\* C3: opening the text that onSave wrote for a document gives back its
\* labels, rows, meta and settings, field for field (a missing key and an
\* undefined value read alike).
C3_RoundTrip ==
  [][\A task \in tasks :
       (/\ openDone(task, TRUE)
        /\ task.text = download
        /\ download = JSONstringify(project))
         => SameFields(project', project)]_vars

\* a number of [0,1]
InUnit(v) == v.t = "number" /\ 0 <= v.n /\ v.n <= v.d

\* C4: every stored coordinate is a number within [0,1].
C4_CoordsInUnit ==
  \A i \in 1..Len(project.labels) :
    /\ project.labels[i].x # Absent => InUnit(project.labels[i].x)
    /\ project.labels[i].y # Absent => InUnit(project.labels[i].y)

\* v is a/w brought into [0,1]
IsClamped(v, a, w) ==
  /\ v.t = "number"
  /\ a < 0 => v = Num(0)
  /\ a > w => v = Num(1)
  /\ (0 <= a /\ a <= w) => v.n * w = a * v.d

\* C5: a drop of a hazard on a laid-out image appends one marker, of the given
\* type at the clamped coordinate, and one row linked to it, of that danger and
\* with S, P, Sr, Pr empty.
C5_PlaceOnImage ==
  [][\A danger \in Hazards, pointer \in Pointers, rect \in Rects,
        labelId \in LabelIds, rowId \in RowIds :
       (/\ ImgPresent(project)
        /\ rect.width > 0
        /\ rect.height > 0
        /\ handleCanvasDrop(danger, pointer, rect, labelId, rowId))
         => LET n == Len(project.labels)
                m == Len(project.rows)
            IN  /\ Len(project'.labels) = n + 1
                /\ SubSeq(project'.labels, 1, n) = project.labels
                /\ project'.labels[n + 1].id = Str(labelId)
                /\ project'.labels[n + 1].type = Str(danger)
                /\ IsClamped(project'.labels[n + 1].x, pointer[1] - rect.left, rect.width)
                /\ IsClamped(project'.labels[n + 1].y, pointer[2] - rect.top, rect.height)
                /\ Len(project'.rows) = m + 1
                /\ SubSeq(project'.rows, 1, m) = project.rows
                /\ project'.rows[m + 1].labelId = Str(labelId)
                /\ project'.rows[m + 1].danger = Str(danger)
                /\ \A k \in {"S", "P", "Sr", "Pr"} : project'.rows[m + 1][k] = Str("")]_vars

\* the first placement of a document, half way down a laid-out image
C5_Witness ==
  /\ Len(project.labels) = 1
  /\ Len(project.rows) = 1
  /\ project.labels[1].x = Num(0)
  /\ project.labels[1].y = Ratio(1, 2)
  /\ project.rows[1].labelId = project.labels[1].id
  /\ project.rows[1].position = Absent
  /\ selectedRowId = project.rows[1].id

\* C6: opening a text whose top-level value is a number, a string, a
\* boolean, null or an array sets an error message and leaves the document.
C6_NonObjectRejected ==
  [][\A task \in tasks :
       (/\ openDone(task, TRUE)
        /\ task.text.top \in {"number", "string", "boolean", "null", "array"})
         => /\ error'.t = "string"
            /\ error'.s # ""
            /\ project' = project]_vars

\* C7: image.displayHeight is 650 in every state.
C7_DisplayHeightFixed == project.image.displayHeight = Num(DisplayHeight)

\* C8: a move addressed to an id that no marker has leaves labels and rows
\* as they are.
C8_StaleMoveNoOp ==
  [][\A drag \in drags, pointer \in Pointers :
       (/\ onMove(drag, pointer)
        /\ Str(drag.labelId) \notin labelIdsOf(project))
         => /\ project'.labels = project.labels
            /\ project'.rows = project.rows]_vars

\* no coordinate of p is NaN or infinite
FiniteCoords(p) ==
  \A i \in 1..Len(p.labels) :
    /\ p.labels[i].x.t \notin {"NaN", "Infinity"}
    /\ p.labels[i].y.t \notin {"NaN", "Infinity"}

\* C9: a drop on the canvas while there is no image element, or while its
\* box has no width or no height, creates no marker and no row, and no
\* coordinate that is not a finite number.
C9_UnmappableDropIgnored ==
  [][\A danger \in Hazards \cup {""}, pointer \in Pointers, rect \in Rects,
        labelId \in LabelIds, rowId \in RowIds :
       (/\ handleCanvasDrop(danger, pointer, rect, labelId, rowId)
        /\ (~ImgPresent(project) \/ rect.width <= 0 \/ rect.height <= 0))
         => /\ project'.labels = project.labels
            /\ project'.rows = project.rows
            /\ FiniteCoords(project')]_vars

\* C10: a failed read of a local or downloaded image, a fetch that rejects or
\* answers with a status that is not OK, a body that cannot be read and an
\* Open of an unreadable or unparsable file leave the document as it was and
\* set a non-empty error message.
C10_FailuresKeepDocument ==
  [][\A task \in tasks :
       (\/ readDone(task, FALSE)
        \/ fetchDone(task, "status")
        \/ fetchDone(task, "reject")
        \/ blobDone(task, FALSE)
        \/ openDone(task, FALSE)
        \/ (task.text.top = "unparsable" /\ openDone(task, TRUE)))
         => /\ project' = project
            /\ error'.t = "string"
            /\ error'.s # ""]_vars

\* a downloaded image could not be read while the document holds a marker
C10_Witness ==
  /\ error = Str(MsgRemoteRead)
  /\ ImgPresent(project)
  /\ Len(project.labels) = 1
  /\ Len(project.rows) = 1

\* C11: the ids of the markers are pairwise distinct, and so are the ids of
\* the rows.
C11_IdsDistinct ==
  /\ \A i, j \in 1..Len(project.labels) :
       project.labels[i].id = project.labels[j].id => i = j
  /\ \A i, j \in 1..Len(project.rows) :
       project.rows[i].id = project.rows[j].id => i = j

\* C12: a placement appends the marker and its row in one step: no state,
\* between or after the import and Open completions and the other events,
\* holds a marker that no row refers to.
C12_MarkerHasRow ==
  \A i \in 1..Len(project.labels) :
    \E j \in 1..Len(project.rows) : project.rows[j].labelId = project.labels[i].id

\* a marker and its row, placed while a file is being read
C12_Witness ==
  /\ Len(project.labels) = 1
  /\ Len(project.rows) = 1
  /\ project.rows[1].labelId = project.labels[1].id
  /\ selectedLabelId = project.labels[1].id
  /\ \E task \in tasks : task.kind = "open"

\* C13: every import that succeeds writes its result over image.dataUrl,
\* whatever another import wrote before, and no other step writes it: after
\* two imports in flight together, dataUrl is the result of the one that
\* completed last.
C13_LastCompletedWins ==
  [][/\ \A task \in tasks :
          readDone(task, TRUE) => project'.image.dataUrl = Str(task.data)
     /\ (\A task \in tasks : ~readDone(task, TRUE))
          => project'.image.dataUrl = project.image.dataUrl]_vars

\* the first of two imports has completed, the other one is still being read
C13_Witness ==
  /\ ImgPresent(project)
  /\ \E task \in tasks :
       /\ task.kind = "local"
       /\ task.stage = "read"
       /\ Str(task.data) # project.image.dataUrl

\* C14: updateRow writes the patched field, with the value as given, into
\* the rows of that id and leaves their other fields, the other rows, the
\* order of rows, labels and the rest of the document as they were; when no
\* row has the id the document is unchanged.
C14_UpdateFrame ==
  [][\A rowId \in RowIds, patch \in Patches :
       updateRow(rowId, patch) =>
         /\ Len(project'.rows) = Len(project.rows)
         /\ \A i \in 1..Len(project.rows) :
              IF project.rows[i].id = Str(rowId)
              THEN /\ project'.rows[i][patch.field] = patch.value
                   /\ \A k \in DOMAIN project.rows[i] \ {patch.field} :
                        project'.rows[i][k] = project.rows[i][k]
              ELSE project'.rows[i] = project.rows[i]
         /\ \A f \in DOMAIN project \ {"rows"} : project'[f] = project[f]
         /\ Str(rowId) \notin rowIdsOf(project) => project' = project]_vars

\* a score beyond the scale is stored in one row, next to an untouched row
C14_Witness ==
  /\ Len(project.rows) = 2
  /\ project.rows[1].S = Num(99)
  /\ project.rows[1].danger = DangerPatch.value
  /\ project.rows[2].S = Str("")
  /\ project.rows[2].danger # DangerPatch.value
  /\ project.rows[1].id # project.rows[2].id

\* C15: the initial document has the settings SP, 5, 5 / 12 / 25, and New
\* gives a document without labels, rows and image data, with the title and
\* the time of New and with the settings of the document it replaces.
C15_NewKeepsSettings ==
  /\ project.settings.scoring.mode = "SP"
  /\ project.settings.scoring.scale = 5
  /\ project.settings.scoring.thresholds = [low |-> 5, medium |-> 12, high |-> 25]
  /\ [][\A now \in LaterTimes :
          onNew(now) =>
            /\ project'.labels = <<>>
            /\ project'.rows = <<>>
            /\ project'.image = [dataUrl |-> Absent, naturalWidth |-> Absent,
                                 naturalHeight |-> Absent,
                                 displayHeight |-> Num(DisplayHeight),
                                 displayWidth |-> Absent]
            /\ project'.meta = [title |-> "Projet EN12100", createdAt |-> now]
            /\ project'.settings = project.settings]_vars

\* New after a file with other thresholds was opened
C15_Witness ==
  /\ project.meta = [title |-> "Projet EN12100", createdAt |-> "t2"]
  /\ project.settings.scoring.thresholds = OtherThresholds
  /\ project.labels = <<>>
  /\ project.rows = <<>>
  /\ ~ImgPresent(project)

\* C16: Open of an object takes meta and settings from the file when it has
\* them and from the replaced document otherwise, labels and rows from the
\* file when they are arrays and empty otherwise, gives schemaVersion 1 and
\* keeps no key beyond the six of a project.
C16_OpenRepairs ==
  [][\A task \in tasks :
       (/\ openDone(task, TRUE)
        /\ task.text.top = "object")
         => /\ error' = Null
            /\ project'.meta = IF task.text.meta # <<>>
                               THEN task.text.meta[1] ELSE project.meta
            /\ project'.settings = IF task.text.settings # <<>>
                                   THEN task.text.settings[1] ELSE project.settings
            /\ project'.labels = IF task.text.labels.kind = "array"
                                 THEN task.text.labels.items ELSE <<>>
            /\ project'.rows = IF task.text.rows.kind = "array"
                               THEN task.text.rows.items ELSE <<>>
            /\ project'.schemaVersion = 1
            /\ DOMAIN project' =
                 {"schemaVersion", "meta", "settings", "image", "labels", "rows"}]_vars

\* a file without arrays was opened over a renamed document: labels and rows
\* are empty, the title is the one typed
C16_Witness ==
  /\ project.meta.title \in Titles
  /\ project.labels = <<>>
  /\ project.rows = <<>>
  /\ error = Null
  /\ selectedRowId # Null

\* a score that is a number, or a text of decimal digits
IsNumeric(v) ==
  \/ v.t = "number"
  \/ v.t = "string" /\ Len(v.s) > 0 /\ DigitsValue(v.s) >= 0

\* C17: computeR is commutative; it is undefined exactly when an operand is
\* empty, missing or not numeric, and the product otherwise, 0 included.
C17_ComputeR ==
  \A i \in 1..Len(project.rows) :
    LET S == project.rows[i].S
        P == project.rows[i].P
    IN  /\ computeR(S, P) = computeR(P, S)
        /\ computeR(S, P) = Undefined <=> ~(IsNumeric(S) /\ IsNumeric(P))
        /\ (IsNumeric(S) /\ IsNumeric(P)) =>
             computeR(S, P) = Num(Number(S).n * Number(P).n)

\* the band of a badge, 0 for the badge of a value that is not computable
Band(class) ==
  CASE class = "bg-green-200 text-green-900" -> 1
    [] class = "bg-amber-200 text-amber-900" -> 2
    [] class = "bg-red-200 text-red-900" -> 3
    [] OTHER -> 0

\* the R and the Rr the table shows for the rows, with their badges
Shown ==
  {[value |-> v, class |-> riskBadgeClass(v, project.settings.scoring.thresholds)] :
     v \in {enrichRowComputed(project.rows[i]).R : i \in 1..Len(project.rows)}
             \cup {enrichRowComputed(project.rows[i]).Rr : i \in 1..Len(project.rows)}}

\* C18: the badge is unknown for a value that is not computable, low up to
\* thresholds.low, moderate above it up to thresholds.medium (included), high
\* otherwise, and does not depend on thresholds.high.
C18_Classify ==
  LET th == project.settings.scoring.thresholds
  IN  \A b \in Shown :
        /\ b.value = Undefined => Band(b.class) = 0
        /\ b.value # Undefined =>
             /\ b.value.n <= th.low => Band(b.class) = 1
             /\ (th.low < b.value.n /\ b.value.n <= th.medium) => Band(b.class) = 2
             /\ (th.low < b.value.n /\ th.medium < b.value.n) => Band(b.class) = 3
        /\ \A high \in {0, 13, 1000} :
             riskBadgeClass(b.value, [th EXCEPT !.high = high]) = b.class

\* S = 3 and P = 4 under low 5 / medium 12: the risk 12 is shown as moderate
C18_Witness ==
  /\ project.settings.scoring.thresholds.low = 5
  /\ project.settings.scoring.thresholds.medium = 12
  /\ \E i \in 1..Len(project.rows) :
       /\ project.rows[i].S = Num(3)
       /\ project.rows[i].P = Num(4)
       /\ [value |-> Num(12), class |-> "bg-amber-200 text-amber-900"] \in Shown

\* C19: for computable values v <= w the band of w is not below the band of
\* v, whatever the thresholds.
C19_Monotonic ==
  \A b, c \in Shown :
    (b.value # Undefined /\ c.value # Undefined /\ b.value.n <= c.value.n)
      => Band(b.class) <= Band(c.class)

\* thresholds with low above medium: 9 and 16 are shown as low and high
C19_Witness ==
  /\ project.settings.scoring.thresholds.low > project.settings.scoring.thresholds.medium
  /\ [value |-> Num(9), class |-> "bg-green-200 text-green-900"] \in Shown
  /\ [value |-> Num(16), class |-> "bg-red-200 text-red-900"] \in Shown

\* a text field as the export is said to write it
QuotedField(v) == "\"" \o replaceAllQuotes(Coalesce(v, Str("")).s) \o "\""

\* a score or a computed risk as the export is said to write it
NumberField(v) == IF v.t = "number" THEN String(v) ELSE ""

ExportedLine(r) ==
  join(<<QuotedField(r.id), QuotedField(r.danger), QuotedField(r.scenario),
         NumberField(r.S), NumberField(r.P), NumberField(computeR(r.S, r.P)),
         QuotedField(r.measures),
         NumberField(r.Sr), NumberField(r.Pr), NumberField(computeR(r.Sr, r.Pr)),
         QuotedField(r.comments)>>, ",")

\* C20: the export is the header line and one line per row in row order, of
\* the 11 fields id, danger, scenario, S, P, R, measures, Sr, Pr, Rr,
\* comments: texts in double quotes with the inner quotes doubled, numbers
\* bare, and nothing at all for an empty score or a risk that is not
\* computable.
C20_ExportShape ==
  [][onExportCsv =>
       download'.chars =
         join(<<join(headers, ",")>>
                \o [i \in 1..Len(project.rows) |-> ExportedLine(project.rows[i])],
              "\n")]_vars

\* a row with R and Rr computed from the scores it stores
Rederived(r) == [r EXCEPT !.R = computeR(r.S, r.P), !.Rr = computeR(r.Sr, r.Pr)]

\* the text of a risk: a dash when it is not computable
RiskText(v) == IF v = Undefined THEN "-" ELSE String(v)

\* C21: after every step the table shows, for each row, the computeR of the
\* scores the row stores now, and an export writes the rows with R and Rr so
\* computed, whatever R and Rr the stored rows carry.
C21_RiskRederived ==
  [][/\ \A i \in 1..Len(project'.rows) :
          LET r == project'.rows[i]
          IN  /\ tableRisks(r).R = RiskText(computeR(r.S, r.P))
              /\ tableRisks(r).Rr = RiskText(computeR(r.Sr, r.Pr))
     /\ onExportCsv =>
          download'.chars = toCsv([i \in 1..Len(project.rows) |->
                                     Rederived(project.rows[i])])]_vars

\* a file whose row says R = 99 was opened, S was set to 3 next to P = 4, and
\* the export writes 12
C21_Witness ==
  /\ Len(project.rows) = 1
  /\ project.rows[1].R = Num(99)
  /\ project.rows[1].S = Num(3)
  /\ project.rows[1].P = Num(4)
  /\ tableRisks(project.rows[1]).R = "12"
  /\ download.chars =
       toCsv(<<[project.rows[1] EXCEPT !.R = Num(12), !.Rr = Num(0)]>>)

\* a label that has neither x nor y
OffImage(lb) == lb.x = Absent /\ lb.y = Absent

\* C22: a side drop appends a marker that has neither x nor y, and a marker
\* without coordinates has none after any step of the store: a step that
\* removes no marker leaves it in its place without coordinates and not shown
\* on the image, and a step that removes markers changes none of those it keeps.
C22_SideStaysOffImage ==
  [][/\ \A danger \in Hazards, labelId \in LabelIds, rowId \in RowIds :
          handleSideDrop(danger, labelId, rowId) =>
            OffImage(project'.labels[Len(project'.labels)])
     /\ Len(project'.labels) >= Len(project.labels) =>
          \A i \in 1..Len(project.labels) :
            OffImage(project.labels[i]) =>
              /\ project'.labels[i].id = project.labels[i].id
              /\ OffImage(project'.labels[i])
              /\ ~hasPos(project'.labels[i])
     /\ Len(project'.labels) < Len(project.labels) =>
          \A j \in 1..Len(project'.labels) :
            \E i \in 1..Len(project.labels) : project'.labels[j] = project.labels[i]]_vars

\* the imports in flight after a step are those in flight before it
ImportsKept == {task \in tasks' : task.kind \in {"local", "remote"}} = imports

\* C23: the completion of an import sets image.dataUrl to its result and
\* leaves labels, rows, meta, settings, schemaVersion and the other fields of
\* image as the document has them at that moment; New and the completion of
\* an Open leave every import in flight, so that it completes on the document
\* that replaced the one it was started on.
C23_ApplyKeepsEdits ==
  [][/\ \A task \in tasks :
          readDone(task, TRUE) =>
            /\ project'.image.dataUrl = Str(task.data)
            /\ \A k \in DOMAIN project.image \ {"dataUrl"} :
                 project'.image[k] = project.image[k]
            /\ \A f \in DOMAIN project \ {"image"} : project'[f] = project[f]
     /\ \A now \in LaterTimes : onNew(now) => ImportsKept
     /\ \A task \in tasks : openDone(task, TRUE) => ImportsKept]_vars

\* a pasted url was read into a document that Open put in place (its image
\* is 400 high) and that holds a marker placed since, with its row edited
C23_Witness ==
  /\ project.image.dataUrl = Str("data:B")
  /\ project.image.displayHeight = Num(400)
  /\ Len(project.labels) = 1
  /\ Len(project.rows) = 1
  /\ project.rows[1].danger = DangerPatch.value
  /\ imports = {}

\* a step takes the import task t to its next stage
Advances(t) ==
  /\ t.stage # "read"
  /\ [t EXCEPT !.stage = IF t.stage = "fetch" THEN "blob" ELSE "read"] \in tasks'
  /\ project' = project
  /\ error' = error

\* a step writes the result of t into image.dataUrl and reports nothing
Applies(t) ==
  /\ t.stage = "read"
  /\ project' = [project EXCEPT !.image.dataUrl = Str(t.data)]
  /\ error' = error

\* a step sets an error message and leaves the document
Reports(t) ==
  /\ project' = project
  /\ error' \in {Str(MsgLocalRead), Str(MsgRemoteRead), Str(MsgRemote)}

\* C24: every stage of an import that is in flight comes to an end; the step
\* that ends one either starts the next stage, or writes the result into
\* image.dataUrl without a message, or sets a message and leaves the document,
\* and no such step changes both the document and the message.
C24_ImportResolves ==
  /\ [][\A t \in imports :
          t \notin tasks' =>
            /\ Advances(t) \/ Applies(t) \/ Reports(t)
            /\ ~(project' # project /\ error' # error)]_vars
  /\ \A t \in ImportTasks : (t \in tasks) ~> (t \notin tasks)

\* a fetch failed after the import of a local file had given the image
C24_Witness ==
  /\ project.image.dataUrl = Str("data:A")
  /\ error = Str(MsgRemote)
  /\ tasks = {}

\* the rows that refer to a marker
rowsOf(lb) == {j \in 1..Len(project.rows) : project.rows[j].labelId = lb.id}

\* C25: with ids that do not collide, every marker has exactly one row whose
\* labelId is its id, and there are at least as many rows as markers.
C25_MarkerRowPairs ==
  /\ \A i \in 1..Len(project.labels) : Cardinality(rowsOf(project.labels[i])) = 1
  /\ Len(project.rows) >= Len(project.labels)

\* a marker on the image and its row, next to a row whose marker was deleted
\* without the cascade and then edited
C25_Witness ==
  /\ Len(project.labels) = 1
  /\ Len(project.rows) = 2
  /\ hasPos(project.labels[1])
  /\ project.rows[1].labelId \notin labelIdsOf(project)
  /\ project.rows[1].danger = DangerPatch.value
  /\ project.rows[2].labelId = project.labels[1].id
  /\ project.rows[2].position # Absent

\* C26: in every state selectedLabelId is null or the id of a marker of
\* labels, and selectedRowId is null or the id of a row of rows.
C26_SelectionConsistent ==
  /\ selectedLabelId # Null => selectedLabelId \in labelIdsOf(project)
  /\ selectedRowId # Null => selectedRowId \in rowIdsOf(project)
====
